---- MODULE Spec2Model ----
(***************************************************************************)
(* Lowering of one free function (crates/lowering/src/new_lower.rs) as a   *)
(* state machine.  The typed function body is not fixed in advance: every  *)
(* step picks the next expression of the body (a variable reference, a     *)
(* literal, a match, an expression kind whose lowering is still empty), so *)
(* the behaviours of the machine are the lowerings of all bodies with at   *)
(* most MaxExprs expression nodes.  The recursion of lower_expr /          *)
(* lower_expr_match is kept as two explicit stacks: `scopes` (the          *)
(* LoweringBlockScope of every call in progress) and `matches` (the locals *)
(* of every lower_expr_match in progress).                                 *)
(*                                                                         *)
(* The same body is lowered twice, side by side: the state of the second   *)
(* lowering is `twin`.  Both take the same steps on the same input; each   *)
(* draws its own iteration order for the HashSets of lower_expr_match.     *)
(***************************************************************************)
EXTENDS Integers, Sequences, FiniteSets, TLC

\* ---------------------------------------------------------------- bounds
\* Largest number of expression nodes of a function body.
MaxExprs == 4

\* Source-level variables (semantic::VarId) a body may reference.
SemVars == {"x", "y"}
\* Concrete enums, named by their number of variants: enum e has the variants
\* 1..e, in declaration order.  A match expression has up to MaxArms arms.
Enums == {1, 2}
MaxArms == 2
\* semantic::TypeId values; the type of source variable v is VarTy(v).
Types == {"felt", "unit"}
\* Literal expressions a body may hold: the value (BigInt) and the static type.
Literals == {[value |-> 1, ty |-> "unit"], [value |-> 42, ty |-> "felt"]}

VARIABLES
  pc,            \* position of lower_free_function
  queries,       \* answers of the upstream queries for this function (input)
  variables,     \* ctx.variables: Arena<Variable>
  blocks,        \* ctx.blocks: Arena<Block>
  diagnostics,   \* ctx.diagnostics
  scopes,        \* stack of LoweringBlockScope, root scope first
  matches,       \* stack of the locals of the lower_expr_match calls in progress
  result,        \* what lower_free_function returned
  exprs_lowered, \* expression nodes of the body visited so far
  arm_log,       \* history: every arm scope as it was when its arm finished
  last_expr,     \* history: the statement or expression the last step lowered
  twin           \* the second lowering of the same body

vars == <<pc, queries, variables, blocks, diagnostics, scopes, matches, result,
          exprs_lowered, arm_log, last_expr, twin>>

\* ---------------------------------------------------------------- helpers
EmptyMap == [x \in {} |-> x]
Range(f) == {f[x] : x \in DOMAIN f}
\* HashMap::insert
Insert(m, k, v) == (k :> v) @@ m
\* The vectors a HashSet can be collected into: every order of its elements.
Orders(S) == {s \in [1..Cardinality(S) -> S] : Range(s) = S}

VarTy(v) == IF v = "x" THEN "felt" ELSE "unit"

\* db.type_info(..).unwrap_or_default(): the query answers for felt and fails
\* for unit, which gets the default (neither droppable nor duplicatable).
type_info(ty) ==
  IF ty = "felt" THEN [duplicatable |-> TRUE, droppable |-> TRUE]
  ELSE [duplicatable |-> FALSE, droppable |-> FALSE]

Variable(ty) ==
  [duplicatable |-> type_info(ty).duplicatable,
   droppable |-> type_info(ty).droppable,
   ty |-> ty]

StatementLiteral(value, output) ==
  [kind |-> "Literal", value |-> value, output |-> output]

StatementMatchEnum(concrete_enum, inputs, arms, outputs) ==
  [kind |-> "MatchEnum", concrete_enum |-> concrete_enum, inputs |-> inputs,
   arms |-> arms, outputs |-> outputs]

MatchArm(variant, block_id, var_mapping) ==
  [variant |-> variant, block_id |-> block_id, var_mapping |-> var_mapping]

\* LoweringBlockScope::default()
DefaultScope == [vars |-> EmptyMap, required_vars |-> EmptyMap, statements |-> <<>>]

Pending == [tag |-> "Pending"]
None == [tag |-> "None"]
Some(r, root) ==
  [tag |-> "Some", diagnostics |-> r.diagnostics, root |-> root,
   variables |-> r.variables, blocks |-> r.blocks]

\* One lowering: the context's arenas and sink, the two stacks, the result.
NoRun ==
  [variables |-> <<>>, blocks |-> <<>>, diagnostics |-> <<>>, scopes |-> <<>>,
   matches |-> <<>>, result |-> Pending]

Cur ==
  [variables |-> variables, blocks |-> blocks, diagnostics |-> diagnostics,
   scopes |-> scopes, matches |-> matches, result |-> result]

Commit(r) ==
  /\ variables' = r.variables
  /\ blocks' = r.blocks
  /\ diagnostics' = r.diagnostics
  /\ scopes' = r.scopes
  /\ matches' = r.matches
  /\ result' = r.result

Top(s) == s[Len(s)]
Pop(s) == SubSeq(s, 1, Len(s) - 1)
SetTop(s, x) == [s EXCEPT ![Len(s)] = x]

\* ---------------------------------------------------------------- operations
\* Arena::alloc returns the index of the record it appends.
\* Mutant: the id is taken after the push instead of being the pushed index.
NextVariableId_AfterPush(r) == Len(r.variables) + 2
NextVariableId(r) == Len(r.variables) + 1
NextBlockId(r) == Len(r.blocks) + 1

\* Mutant: the variable is not pushed to the arena, so the next id is handed out
\* again.
introduce_new_var_NoAlloc(r, ty) == r

introduce_new_var(r, ty) == [r EXCEPT !.variables = Append(@, Variable(ty))]

AllocBlock(r, statements) ==
  [r EXCEPT !.blocks = Append(@, [statements |-> statements])]

\* Mutant: the `?` after the implicits query is missing.
UpstreamQueriesOk_ImplicitsUnchecked ==
  /\ queries.function_def
  /\ queries.generic_params
  /\ queries.signature

\* The four upstream queries of lower_free_function, each followed by `?`.
UpstreamQueriesOk ==
  /\ queries.function_def
  /\ queries.generic_params
  /\ queries.signature
  /\ queries.implicits

\* Mutant: the placeholder is registered in required_vars and not in vars.
LowerExprVar_RequiredOnly(r, v) ==
  LET scope == Top(r.scopes) IN
  IF v \in DOMAIN scope.vars THEN r
  ELSE LET lowered_id == NextVariableId(r)
           r1 == introduce_new_var(r, VarTy(v))
       IN [r1 EXCEPT !.scopes = SetTop(@,
             [scope EXCEPT !.required_vars = Insert(@, v, lowered_id)])]

\* lower_expr, Expr::Var
LowerExprVar(r, v) ==
  LET scope == Top(r.scopes) IN
  IF v \in DOMAIN scope.vars THEN r
  ELSE LET lowered_id == NextVariableId(r)
           r1 == introduce_new_var(r, VarTy(v))
       IN [r1 EXCEPT !.scopes = SetTop(@,
             [scope EXCEPT !.required_vars = Insert(@, v, lowered_id),
                           !.vars = Insert(@, v, lowered_id)])]

\* Mutant: the output variable is always given the felt type.
LowerExprLiteral_FeltOutput(r, value, ty) ==
  LET scope == Top(r.scopes)
      lowered_id == NextVariableId(r)
      r1 == introduce_new_var(r, "felt")
  IN [r1 EXCEPT !.scopes = SetTop(@,
        [scope EXCEPT !.statements = Append(@, StatementLiteral(value, lowered_id))])]

\* lower_expr_literal
LowerExprLiteral(r, value, ty) ==
  LET scope == Top(r.scopes)
      lowered_id == NextVariableId(r)
      r1 == introduce_new_var(r, ty)
  IN [r1 EXCEPT !.scopes = SetTop(@,
        [scope EXCEPT !.statements = Append(@, StatementLiteral(value, lowered_id))])]

\* Mutant: the arm's scope starts as a copy of the enclosing scope's bindings.
NewArmScope_Inherit(r) == [DefaultScope EXCEPT !.vars = Top(r.scopes).vars]

\* The scope an arm is lowered into: LoweringBlockScope::default(), whatever the
\* lowering r holds.
NewArmScope(r) == DefaultScope

\* lower_expr_match up to its loop: the locals of the call.
MatchLocals(concrete_enum) ==
  [concrete_enum |-> concrete_enum, concrete_variants |-> concrete_enum,
   inputs |-> {}, outputs |-> {}, match_arms |-> <<>>]

\* Mutant: the arguments of arm_mapping.insert are swapped.
ArmMapping_Swapped(arm_scope, scope) ==
  LET resolved == {v \in DOMAIN arm_scope.required_vars : v \in DOMAIN scope.vars}
      keys == {arm_scope.required_vars[v] : v \in resolved}
  IN [k \in keys |->
        scope.vars[CHOOSE v \in resolved : arm_scope.required_vars[v] = k]]

\* Mutant: a required variable the enclosing scope does not hold is mapped too,
\* from its own placeholder.
ArmMapping_KeepUnresolved(arm_scope, scope) ==
  LET required == DOMAIN arm_scope.required_vars
      key(v) == IF v \in DOMAIN scope.vars THEN scope.vars[v]
                ELSE arm_scope.required_vars[v]
  IN [k \in {key(v) : v \in required} |->
        arm_scope.required_vars[CHOOSE v \in required : key(v) = k]]

\* The loop body of lower_expr_match after the arm's expression was lowered:
\* the arm's required variables are looked up in the enclosing scope.
ArmMapping(arm_scope, scope) ==
  LET resolved == {v \in DOMAIN arm_scope.required_vars : v \in DOMAIN scope.vars}
      keys == {scope.vars[v] : v \in resolved}
  IN [k \in keys |->
        arm_scope.required_vars[CHOOSE v \in resolved : scope.vars[v] = k]]

\* (The source declares `inputs` and `outputs` without `mut`; the model takes
\* the two `extend` calls to act on them, as the code around them intends.)
\* Mutant: inputs and outputs are assigned from the arm instead of extended.
LowerArmEnd_Overwrite(r) ==
  LET arm_scope == Top(r.scopes)
      rest == Pop(r.scopes)
      scope == Top(rest)
      m == Top(r.matches)
      arm_mapping == ArmMapping(arm_scope, scope)
      block_id == NextBlockId(r)
      r1 == AllocBlock(r, arm_scope.statements)
      variant == Len(m.match_arms) + 1
  IN [r1 EXCEPT
        !.scopes = rest,
        !.matches = SetTop(@,
          [m EXCEPT !.inputs = DOMAIN arm_mapping,
                    !.outputs = Range(arm_mapping),
                    !.match_arms = Append(@, MatchArm(variant, block_id, arm_mapping))])]

\* Mutant: a required variable the enclosing scope does not hold is passed on to
\* the enclosing scope's required_vars.
LowerArmEnd_Propagate(r) ==
  LET arm_scope == Top(r.scopes)
      rest == Pop(r.scopes)
      scope == Top(rest)
      m == Top(r.matches)
      arm_mapping == ArmMapping(arm_scope, scope)
      block_id == NextBlockId(r)
      r1 == AllocBlock(r, arm_scope.statements)
      variant == Len(m.match_arms) + 1
      missing == DOMAIN arm_scope.required_vars \ DOMAIN scope.vars
      required_vars == [v \in DOMAIN scope.required_vars \cup missing |->
                          IF v \in missing THEN arm_scope.required_vars[v]
                          ELSE scope.required_vars[v]]
  IN [r1 EXCEPT
        !.scopes = SetTop(rest, [scope EXCEPT !.required_vars = required_vars]),
        !.matches = SetTop(@,
          [m EXCEPT !.inputs = @ \cup DOMAIN arm_mapping,
                    !.outputs = @ \cup Range(arm_mapping),
                    !.match_arms = Append(@, MatchArm(variant, block_id, arm_mapping))])]

\* Mutant: the variants are paired with the arms from the last one backwards.
LowerArmEnd_VariantFromEnd(r) ==
  LET arm_scope == Top(r.scopes)
      rest == Pop(r.scopes)
      scope == Top(rest)
      m == Top(r.matches)
      arm_mapping == ArmMapping(arm_scope, scope)
      block_id == NextBlockId(r)
      r1 == AllocBlock(r, arm_scope.statements)
      variant == m.concrete_variants - Len(m.match_arms)
  IN [r1 EXCEPT
        !.scopes = rest,
        !.matches = SetTop(@,
          [m EXCEPT !.inputs = @ \cup DOMAIN arm_mapping,
                    !.outputs = @ \cup Range(arm_mapping),
                    !.match_arms = Append(@, MatchArm(variant, block_id, arm_mapping))])]

\* zip_eq(concrete_variants, &expr_match.arms): the arm lowered next is paired
\* with the variant at its own position (the match_arms built so far plus one).
LowerArmEnd(r) ==
  LET arm_scope == Top(r.scopes)
      rest == Pop(r.scopes)
      scope == Top(rest)
      m == Top(r.matches)
      arm_mapping == ArmMapping(arm_scope, scope)
      block_id == NextBlockId(r)
      r1 == AllocBlock(r, arm_scope.statements)
      variant == Len(m.match_arms) + 1
  IN [r1 EXCEPT
        !.scopes = rest,
        !.matches = SetTop(@,
          [m EXCEPT !.inputs = @ \cup DOMAIN arm_mapping,
                    !.outputs = @ \cup Range(arm_mapping),
                    !.match_arms = Append(@, MatchArm(variant, block_id, arm_mapping))])]

\* Mutant: the MatchEnum statement is put in front of the scope's statements.
LowerMatchEnd_Prepend(r, inputs, outputs) ==
  LET m == Top(r.matches)
      scope == Top(r.scopes)
  IN [r EXCEPT
        !.matches = Pop(@),
        !.scopes = SetTop(@,
          [scope EXCEPT !.statements =
             <<StatementMatchEnum(m.concrete_enum, inputs, m.match_arms, outputs)>> \o @])]

\* The end of lower_expr_match: the statement is pushed to the enclosing scope.
LowerMatchEnd(r, inputs, outputs) ==
  LET m == Top(r.matches)
      scope == Top(r.scopes)
  IN [r EXCEPT
        !.matches = Pop(@),
        !.scopes = SetTop(@,
          [scope EXCEPT !.statements =
             Append(@, StatementMatchEnum(m.concrete_enum, inputs, m.match_arms, outputs))])]

\* The end of lower_free_function.
\* Mutant: the function returns the first block of the arena as its root.
LowerFunctionEnd_RootFirst(r) ==
  LET scope == Top(r.scopes)
      r1 == AllocBlock(r, scope.statements)
  IN [r1 EXCEPT !.scopes = <<>>, !.result = Some(r1, 1)]

LowerFunctionEnd(r) ==
  LET scope == Top(r.scopes)
      root_block == NextBlockId(r)
      r1 == AllocBlock(r, scope.statements)
  IN [r1 EXCEPT !.scopes = <<>>, !.result = Some(r1, root_block)]

\* ---------------------------------------------------------------- actions
\* What a step lowered: the statement kind (with the declared name of a let), the
\* expression kind, and the expression's own fields.
NoExpr ==
  [stmt |-> "-", pattern |-> "-", kind |-> "-", var |-> "-", value |-> 0, ty |-> "-"]
ExprStmt(kind) == [NoExpr EXCEPT !.stmt = "Expr", !.kind = kind]
ExprVar(v) == [ExprStmt("Var") EXCEPT !.var = v, !.ty = VarTy(v)]
ExprLiteral(expr) == [ExprStmt("Literal") EXCEPT !.value = expr.value, !.ty = expr.ty]
StmtLet(pattern, e) == [e EXCEPT !.stmt = "Let", !.pattern = pattern]

InScope == pc = "lowering" /\ Len(scopes) = Len(matches) + 1
BetweenArms == pc = "lowering" /\ Len(scopes) = Len(matches)
MoreExprs == exprs_lowered < MaxExprs

Init ==
  /\ pc = "start"
  /\ queries \in [function_def : BOOLEAN, generic_params : BOOLEAN,
                  signature : BOOLEAN, implicits : BOOLEAN, body_is_block : BOOLEAN]
  /\ variables = <<>>
  /\ blocks = <<>>
  /\ diagnostics = <<>>
  /\ scopes = <<>>
  /\ matches = <<>>
  /\ result = Pending
  /\ exprs_lowered = 0
  /\ arm_log = <<>>
  /\ last_expr = NoExpr
  /\ twin = NoRun

\* lower_free_function: a failed query returns None before anything is built.
lower_free_function_none(twice) ==
  /\ pc = "start"
  /\ ~UpstreamQueriesOk
  /\ pc' = "returned"
  /\ result' = None
  /\ twin' = IF twice THEN [twin EXCEPT !.result = None] ELSE twin
  /\ UNCHANGED <<queries, variables, blocks, diagnostics, scopes, matches,
                 exprs_lowered, arm_log>>
  /\ last_expr' = NoExpr

\* extract_matches! panics on a body that is no block expression.
lower_free_function_body_panic(twice) ==
  /\ pc = "start"
  /\ UpstreamQueriesOk
  /\ ~queries.body_is_block
  /\ pc' = "panicked: body is no block"
  /\ UNCHANGED <<queries, variables, blocks, diagnostics, scopes, matches, result,
                 exprs_lowered, arm_log, twin>>
  /\ last_expr' = NoExpr

\* The context and the root scope are built, lower_block starts on the body.
lower_free_function_begin(twice) ==
  /\ pc = "start"
  /\ UpstreamQueriesOk
  /\ queries.body_is_block
  /\ pc' = "lowering"
  /\ Commit([NoRun EXCEPT !.scopes = <<DefaultScope>>])
  /\ twin' = IF twice THEN [NoRun EXCEPT !.scopes = <<DefaultScope>>] ELSE twin
  /\ UNCHANGED <<queries, exprs_lowered, arm_log>>
  /\ last_expr' = NoExpr

lower_expr_var(twice) ==
  /\ InScope /\ MoreExprs
  /\ \E v \in SemVars :
       /\ Commit(LowerExprVar(Cur, v))
       /\ twin' = IF twice THEN LowerExprVar(twin, v) ELSE twin
       /\ last_expr' = ExprVar(v)
  /\ exprs_lowered' = exprs_lowered + 1
  /\ UNCHANGED <<pc, queries, arm_log>>

lower_expr_literal(twice) ==
  /\ InScope /\ MoreExprs
  /\ \E expr \in Literals :
       /\ Commit(LowerExprLiteral(Cur, expr.value, expr.ty))
       /\ twin' = IF twice THEN LowerExprLiteral(twin, expr.value, expr.ty) ELSE twin
       /\ last_expr' = ExprLiteral(expr)
  /\ exprs_lowered' = exprs_lowered + 1
  /\ UNCHANGED <<pc, queries, arm_log>>

\* Tuple, Assignment, FunctionCall, If, MemberAccess, StructCtor,
\* EnumVariantCtor, PropagateError, Missing: their lowering is empty.
lower_expr_todo(twice) ==
  /\ InScope /\ MoreExprs
  /\ exprs_lowered' = exprs_lowered + 1
  /\ UNCHANGED <<pc, queries, variables, blocks, diagnostics, scopes, matches,
                 result, arm_log, twin>>
  /\ last_expr' = ExprStmt("Todo")

\* Expr::Block: lower_block runs on the nested block with the same scope; the
\* block's statements are the next expressions lowered into that scope.
lower_expr_block(twice) ==
  /\ InScope /\ MoreExprs
  /\ exprs_lowered' = exprs_lowered + 1
  /\ last_expr' = ExprStmt("Block")
  /\ UNCHANGED <<pc, queries, variables, blocks, diagnostics, scopes, matches,
                 result, arm_log, twin>>

\* lower_block, Statement::Let: the right-hand side is lowered like an
\* expression statement (here a variable reference or a literal); the pattern
\* is not looked at.
lower_stmt_let(twice) ==
  /\ InScope /\ MoreExprs
  /\ \E pattern \in SemVars :
       \/ \E v \in SemVars :
            /\ Commit(LowerExprVar(Cur, v))
            /\ twin' = IF twice THEN LowerExprVar(twin, v) ELSE twin
            /\ last_expr' = StmtLet(pattern, ExprVar(v))
       \/ \E expr \in Literals :
            /\ Commit(LowerExprLiteral(Cur, expr.value, expr.ty))
            /\ twin' = IF twice THEN LowerExprLiteral(twin, expr.value, expr.ty) ELSE twin
            /\ last_expr' = StmtLet(pattern, ExprLiteral(expr))
  /\ exprs_lowered' = exprs_lowered + 1
  /\ UNCHANGED <<pc, queries, arm_log>>

\* extract_concrete_enum(..).unwrap() succeeds: the matched type is a concrete
\* enum with as many variants as the match has arms.
lower_expr_match_begin(twice) ==
  /\ InScope /\ MoreExprs
  /\ \E concrete_enum \in Enums :
       /\ matches' = Append(matches, MatchLocals(concrete_enum))
       /\ twin' = IF twice
                  THEN [twin EXCEPT !.matches = Append(@, MatchLocals(concrete_enum))]
                  ELSE twin
  /\ exprs_lowered' = exprs_lowered + 1
  /\ UNCHANGED <<pc, queries, variables, blocks, diagnostics, scopes, result, arm_log>>
  /\ last_expr' = ExprStmt("Match")

\* extract_concrete_enum returns Err (the matched type is no concrete enum, or a
\* query on the enum fails) and lower_expr_match unwraps it: the thread panics.
lower_expr_match_unwrap_panic(twice) ==
  /\ InScope /\ MoreExprs
  /\ pc' = "panicked: unwrap on Err"
  /\ exprs_lowered' = exprs_lowered + 1
  /\ UNCHANGED <<queries, variables, blocks, diagnostics, scopes, matches, result,
                 arm_log, twin>>
  /\ last_expr' = ExprStmt("Match")

\* The match has n_arms arms and its enum another number of variants: the
\* assert_eq! of extract_concrete_enum panics.
lower_expr_match_assert_panic(twice) ==
  /\ InScope /\ MoreExprs
  /\ \E concrete_enum \in Enums, n_arms \in 1..MaxArms : n_arms # concrete_enum
  /\ pc' = "panicked: Wrong number of arms."
  /\ exprs_lowered' = exprs_lowered + 1
  /\ UNCHANGED <<queries, variables, blocks, diagnostics, scopes, matches, result,
                 arm_log, twin>>
  /\ last_expr' = ExprStmt("Match")

\* The next (variant, arm) pair of the loop: a fresh scope for the arm.
lower_arm_begin(twice) ==
  /\ BetweenArms
  /\ Len(matches) > 0
  /\ Len(Top(matches).match_arms) < Top(matches).concrete_variants
  /\ scopes' = Append(scopes, NewArmScope(Cur))
  /\ twin' = IF twice THEN [twin EXCEPT !.scopes = Append(@, NewArmScope(twin))] ELSE twin
  /\ UNCHANGED <<pc, queries, variables, blocks, diagnostics, matches, result,
                 exprs_lowered, arm_log>>
  /\ last_expr' = NoExpr

\* The arm's expression is lowered: unify, allocate the arm's block.
lower_arm_end(twice) ==
  /\ InScope
  /\ Len(matches) > 0
  /\ Commit(LowerArmEnd(Cur))
  /\ twin' = IF twice THEN LowerArmEnd(twin) ELSE twin
  /\ arm_log' = Append(arm_log,
       [arm_scope |-> Top(scopes), scope_vars |-> scopes[Len(scopes) - 1].vars,
        depth |-> Len(matches), block_id |-> NextBlockId(Cur)])
  /\ UNCHANGED <<pc, queries, exprs_lowered>>
  /\ last_expr' = NoExpr

\* All arms are lowered: the MatchEnum statement is pushed.
lower_expr_match_end(twice) ==
  /\ BetweenArms
  /\ Len(matches) > 0
  /\ Len(Top(matches).match_arms) = Top(matches).concrete_variants
  /\ \E inputs \in Orders(Top(matches).inputs), outputs \in Orders(Top(matches).outputs) :
       Commit(LowerMatchEnd(Cur, inputs, outputs))
  /\ IF twice
     THEN \E inputs \in Orders(Top(twin.matches).inputs),
             outputs \in Orders(Top(twin.matches).outputs) :
            twin' = LowerMatchEnd(twin, inputs, outputs)
     ELSE twin' = twin
  /\ UNCHANGED <<pc, queries, exprs_lowered, arm_log>>
  /\ last_expr' = NoExpr

\* lower_block returned to lower_free_function: root block, result.
lower_free_function_end(twice) ==
  /\ InScope
  /\ Len(matches) = 0
  /\ pc' = "returned"
  /\ Commit(LowerFunctionEnd(Cur))
  /\ twin' = IF twice THEN LowerFunctionEnd(twin) ELSE twin
  /\ UNCHANGED <<queries, exprs_lowered, arm_log>>
  /\ last_expr' = NoExpr

Next ==
  \/ lower_free_function_none(FALSE)
  \/ lower_free_function_body_panic(FALSE)
  \/ lower_free_function_begin(FALSE)
  \/ lower_expr_var(FALSE)
  \/ lower_expr_literal(FALSE)
  \/ lower_expr_todo(FALSE)
  \/ lower_expr_block(FALSE)
  \/ lower_expr_match_begin(FALSE)
  \/ lower_expr_match_unwrap_panic(FALSE)
  \/ lower_expr_match_assert_panic(FALSE)
  \/ lower_arm_begin(FALSE)
  \/ lower_arm_end(FALSE)
  \/ lower_expr_match_end(FALSE)
  \/ lower_free_function_end(FALSE)

Spec == Init /\ [][Next]_vars

\* The same, with the second lowering of the body running alongside.
NextTwice ==
  \/ lower_free_function_none(TRUE)
  \/ lower_free_function_body_panic(TRUE)
  \/ lower_free_function_begin(TRUE)
  \/ lower_expr_var(TRUE)
  \/ lower_expr_literal(TRUE)
  \/ lower_expr_todo(TRUE)
  \/ lower_expr_block(TRUE)
  \/ lower_expr_match_begin(TRUE)
  \/ lower_expr_match_unwrap_panic(TRUE)
  \/ lower_expr_match_assert_panic(TRUE)
  \/ lower_arm_begin(TRUE)
  \/ lower_arm_end(TRUE)
  \/ lower_expr_match_end(TRUE)
  \/ lower_free_function_end(TRUE)

SpecTwice == Init /\ [][NextTwice]_vars

\* The bodies of Spec, and let statements told apart from expression statements.
NextLet ==
  \/ Next
  \/ lower_stmt_let(FALSE)

SpecLet == Init /\ [][NextLet]_vars

\* ---------------------------------------------------------------- observations
MatchesOf(statements) ==
  {statements[i] : i \in {j \in DOMAIN statements : statements[j].kind = "MatchEnum"}}

\* Every MatchEnum statement emitted so far: in a finished block or in the
\* statements of a scope still being lowered.
EmittedMatches ==
  UNION ({MatchesOf(blocks[b].statements) : b \in DOMAIN blocks}
         \cup {MatchesOf(scopes[i].statements) : i \in DOMAIN scopes})

\* Every MatchArm built so far: of an emitted statement or of a match in progress.
ArmsOf(match_arms) == {match_arms[i] : i \in DOMAIN match_arms}
EmittedArms == UNION {ArmsOf(st.arms) : st \in EmittedMatches}
BuiltArms == EmittedArms \cup UNION {ArmsOf(matches[i].match_arms) : i \in DOMAIN matches}

LoggedArms == {arm_log[i] : i \in DOMAIN arm_log}
\* The placeholder ids an arm held in required_vars when it finished, those of
\* them whose source variable the enclosing scope held, and the others.
Required(e) == Range(e.arm_scope.required_vars)
ResolvedVars(e) == DOMAIN e.arm_scope.required_vars \cap DOMAIN e.scope_vars
MissingVars(e) == DOMAIN e.arm_scope.required_vars \ DOMAIN e.scope_vars
MissingIds(e) == {e.arm_scope.required_vars[v] : v \in MissingVars(e)}

NoDuplicate(seq) == Cardinality(Range(seq)) = Len(seq)

\* ---------------------------------------------------------------- claims

\* C1: in every emitted MatchEnum statement, `inputs` as a set is the union of
\* the keys of the arms' var_mapping, `outputs` as a set is the union of their
\* values, and neither vector holds an id twice.
C1_MatchInputsOutputsAreUnions ==
  \A st \in EmittedMatches :
    /\ Range(st.inputs) = UNION {DOMAIN arm.var_mapping : arm \in ArmsOf(st.arms)}
    /\ Range(st.outputs) = UNION {Range(arm.var_mapping) : arm \in ArmsOf(st.arms)}
    /\ NoDuplicate(st.inputs)
    /\ NoDuplicate(st.outputs)

\* C1 witness: a finished function whose match has two arms that require the
\* same enclosing variable (one input, two outputs), and a finished function
\* whose arms require different subsets is reached the same way.
C1_Witness ==
  /\ pc = "returned"
  /\ \E st \in EmittedMatches :
       /\ Len(st.arms) = 2
       /\ DOMAIN st.arms[1].var_mapping = DOMAIN st.arms[2].var_mapping
       /\ Len(st.inputs) = 1
       /\ Len(st.outputs) = 2

\* C2 as stated: for every arm of every emitted MatchEnum statement, the values
\* of its var_mapping are exactly the placeholder ids the arm required.
C2_Original ==
  \A e \in LoggedArms : \A arm \in EmittedArms :
    arm.block_id = e.block_id => Range(arm.var_mapping) = Required(e)

\* C2 amended: for every arm of every emitted MatchEnum statement, var_mapping
\* has exactly one entry for each required variable that the enclosing scope's
\* `vars` held when the match was lowered, from the enclosing scope's id to the
\* arm's placeholder id, and no entry for a required variable the enclosing
\* scope did not hold.
C2_MappingCoversResolvedRequired ==
  \A e \in LoggedArms : \A arm \in EmittedArms :
    arm.block_id = e.block_id =>
      /\ \A v \in ResolvedVars(e) :
           /\ e.scope_vars[v] \in DOMAIN arm.var_mapping
           /\ arm.var_mapping[e.scope_vars[v]] = e.arm_scope.required_vars[v]
      /\ Cardinality(DOMAIN arm.var_mapping) = Cardinality(ResolvedVars(e))
      /\ Range(arm.var_mapping) = Required(e) \ MissingIds(e)

\* C2 witness: an emitted arm that required two variables of which the
\* enclosing scope held one.
C2_Witness ==
  \E e \in LoggedArms : \E arm \in EmittedArms :
    /\ arm.block_id = e.block_id
    /\ Cardinality(ResolvedVars(e)) = 1
    /\ Cardinality(MissingVars(e)) = 1

\* C3: once an arm required a variable its enclosing scope did not hold, the
\* diagnostics sink (and so the returned diagnostics) is not empty.
C3_MissingVarDiagnosed ==
  (\E e \in LoggedArms : MissingVars(e) # {}) =>
    /\ diagnostics # <<>>
    /\ result.tag = "Some" => result.diagnostics # <<>>

\* The match an arm belongs to: still in progress, or its emitted statement.
FramesOf(e) ==
  {matches[i] : i \in {j \in DOMAIN matches :
     \E arm \in ArmsOf(matches[j].match_arms) : arm.block_id = e.block_id}}
StatementsOf(e) ==
  {st \in EmittedMatches : \E arm \in ArmsOf(st.arms) : arm.block_id = e.block_id}

\* The arm of e is among match_arms with the mappings that resolved, and no id
\* of an unresolved variable of e is in inputs, outputs or a var_mapping.
ResolvedOnly(e, inputs, outputs, match_arms) ==
  /\ \E arm \in ArmsOf(match_arms) :
       /\ arm.block_id = e.block_id
       /\ \A v \in ResolvedVars(e) :
            /\ e.scope_vars[v] \in DOMAIN arm.var_mapping
            /\ arm.var_mapping[e.scope_vars[v]] = e.arm_scope.required_vars[v]
  /\ \A arm \in ArmsOf(match_arms) :
       (DOMAIN arm.var_mapping \cup Range(arm.var_mapping)) \cap MissingIds(e) = {}
  /\ (inputs \cup outputs) \cap MissingIds(e) = {}

\* C4: an arm requiring a variable its enclosing scope does not hold does not
\* stop the lowering: the arm's block is allocated and its MatchArm is built
\* with the mappings of the variables that resolved; no id of the unresolved
\* variable appears in the `inputs`, the `outputs` or a var_mapping of its
\* match; the MatchEnum statement is pushed with all the arms of its enum;
\* control goes on in the enclosing scope after the match; and a function whose
\* queries succeeded returns Some.
C4_Inv ==
  /\ \A e \in LoggedArms : MissingVars(e) # {} =>
       /\ e.block_id \in DOMAIN blocks
       /\ Cardinality(FramesOf(e)) + Cardinality(StatementsOf(e)) = 1
       /\ \A m \in FramesOf(e) : ResolvedOnly(e, m.inputs, m.outputs, m.match_arms)
       /\ \A st \in StatementsOf(e) :
            /\ ResolvedOnly(e, Range(st.inputs), Range(st.outputs), st.arms)
            /\ Len(st.arms) = st.concrete_enum
  /\ pc = "returned" /\ queries.function_def /\ queries.generic_params
       /\ queries.signature /\ queries.implicits
     => result.tag = "Some"

C4_Step ==
  /\ (Len(arm_log') = Len(arm_log) + 1 /\ MissingVars(Top(arm_log')) # {}) =>
       /\ pc' = "lowering"
       /\ Len(Top(matches').match_arms) = Len(Top(matches).match_arms) + 1
  /\ Len(matches') < Len(matches) =>
       /\ pc' = "lowering"
       /\ Len(scopes') = Len(matches') + 1
       /\ Top(scopes').statements[Len(Top(scopes').statements)].arms
            = Top(matches).match_arms

C4_ContinuesAfterMissingVar == []C4_Inv /\ [][C4_Step]_vars

\* C4 witness: a returned function whose root block holds a MatchEnum statement
\* with an arm that required an unresolved variable, followed by a literal.
C4_Witness ==
  /\ result.tag = "Some"
  /\ LET root == result.blocks[result.root].statements IN
       /\ Len(root) = 2
       /\ root[1].kind = "MatchEnum"
       /\ root[2].kind = "Literal"
       /\ \E e \in LoggedArms :
            /\ MissingVars(e) # {}
            /\ e.block_id = root[1].arms[1].block_id

\* The variable ids lower_free_function binds to parameters: it computes the
\* parameters' semantic ids and types and allocates no variable for them.
ParamVariableIds == {}

OutputsOf(st) == IF st.kind = "Literal" THEN {st.output} ELSE Range(st.outputs)

\* C5: in every block, every id in the `inputs` of a statement is an output of
\* an earlier statement of the block, bound to a parameter, or a value of the
\* var_mapping of the arm that owns the block.
C5_ScopeSoundness ==
  \A b \in DOMAIN blocks :
    LET statements == blocks[b].statements IN
    \A i \in DOMAIN statements :
      statements[i].kind = "MatchEnum" =>
        \A id \in Range(statements[i].inputs) :
          \/ \E j \in 1..(i - 1) : id \in OutputsOf(statements[j])
          \/ id \in ParamVariableIds
          \/ \E arm \in BuiltArms : arm.block_id = b /\ id \in Range(arm.var_mapping)

\* C6: arms are isolated.  The ids bound in the scopes of two different arms
\* are disjoint; whatever an arm's scope binds, the arm required itself (vars
\* and required_vars of an arm scope coincide); and the scope pushed for an arm
\* is empty.
ArmScopes ==
  {arm_log[i].arm_scope : i \in DOMAIN arm_log}
    \cup {scopes[i] : i \in {j \in DOMAIN scopes : j > 1}}

C6_Inv ==
  /\ \A i, j \in DOMAIN arm_log :
       i # j => Range(arm_log[i].arm_scope.vars) \cap Range(arm_log[j].arm_scope.vars) = {}
  /\ \A e \in LoggedArms : \A i \in DOMAIN scopes :
       i > 1 => Range(e.arm_scope.vars) \cap Range(scopes[i].vars) = {}
  /\ \A sc \in ArmScopes :
       /\ DOMAIN sc.vars = DOMAIN sc.required_vars
       /\ \A v \in DOMAIN sc.vars : sc.vars[v] = sc.required_vars[v]

C6_Step ==
  (Len(scopes) >= 1 /\ Len(scopes') = Len(scopes) + 1) =>
    /\ DOMAIN Top(scopes').vars = {}
    /\ DOMAIN Top(scopes').required_vars = {}
    /\ Top(scopes').statements = <<>>

C6_ArmIsolation == []C6_Inv /\ [][C6_Step]_vars

\* C6 witness: two arms of one match that both referenced x, which the
\* enclosing scope holds, each with a placeholder of its own.
C6_Witness ==
  \E st \in EmittedMatches :
    /\ Len(st.arms) = 2
    /\ \E e1, e2 \in LoggedArms :
         /\ e1.block_id = st.arms[1].block_id
         /\ e2.block_id = st.arms[2].block_id
         /\ "x" \in DOMAIN e1.arm_scope.required_vars
         /\ "x" \in DOMAIN e2.arm_scope.required_vars
         /\ "x" \in DOMAIN e1.scope_vars
         /\ e1.arm_scope.required_vars["x"] # e2.arm_scope.required_vars["x"]

\* C7: two lowerings of the same body return the same blocks: the same
\* statements in the same order, every MatchEnum statement with the same order
\* of `inputs` and of `outputs` (both lowerings allocate the same arena
\* indices, so the renaming between them is the identity).
C7_Determinism ==
  (result.tag = "Some" /\ twin.result.tag = "Some") =>
    /\ twin.result.variables = result.variables
    /\ twin.result.blocks = result.blocks

\* C8: in a returned function the root block id, every arm's block id and every
\* variable id of every statement is an index of the returned arenas.
C8_ArenaClosure ==
  result.tag = "Some" =>
    /\ result.root \in DOMAIN result.blocks
    /\ \A b \in DOMAIN result.blocks :
         LET statements == result.blocks[b].statements IN
         \A i \in DOMAIN statements :
           IF statements[i].kind = "Literal"
           THEN statements[i].output \in DOMAIN result.variables
           ELSE /\ Range(statements[i].inputs) \subseteq DOMAIN result.variables
                /\ Range(statements[i].outputs) \subseteq DOMAIN result.variables
                /\ \A arm \in ArmsOf(statements[i].arms) :
                     /\ arm.block_id \in DOMAIN result.blocks
                     /\ DOMAIN arm.var_mapping \subseteq DOMAIN result.variables
                     /\ Range(arm.var_mapping) \subseteq DOMAIN result.variables

\* C8 witness: a returned function with a literal in an arm's block and a
\* MatchEnum statement that has an input.
C8_Witness ==
  /\ result.tag = "Some"
  /\ \E st \in MatchesOf(result.blocks[result.root].statements) :
       /\ Len(st.inputs) > 0
       /\ \E arm \in ArmsOf(st.arms) : Len(result.blocks[arm.block_id].statements) > 0

\* C9: after a match whose number of arms differs from its enum's number of
\* variants, lower_free_function has returned None, with no diagnostic recorded.
C9_ArmCountMismatchReturnsNone ==
  pc = "panicked: Wrong number of arms." =>
    /\ result.tag = "None"
    /\ diagnostics = <<>>

\* C10: when one of the four upstream queries fails, lower_free_function
\* returns None and nothing was built: no variable, no block, no scope, no
\* expression lowered.
C10_QueryFailureReturnsNone ==
  (pc # "start" /\ \E q \in {"function_def", "generic_params", "signature", "implicits"} :
                     ~queries[q]) =>
    /\ pc = "returned"
    /\ result = None
    /\ variables = <<>>
    /\ blocks = <<>>
    /\ scopes = <<>>
    /\ exprs_lowered = 0

\* C10 witness: the function returned None with the last query alone failing.
C10_Witness ==
  /\ pc = "returned"
  /\ result.tag = "None"
  /\ queries.function_def /\ queries.generic_params /\ queries.signature
  /\ ~queries.implicits

\* m2 is m1 with the one more entry k |-> id.
Extends(m2, m1, k, id) ==
  /\ DOMAIN m2 = DOMAIN m1 \cup {k}
  /\ m2[k] = id
  /\ \A w \in DOMAIN m1 \ {k} : m2[w] = m1[w]

\* C11: lowering a reference to v in a scope whose vars lacks v allocates
\* exactly one variable, of v's type, and registers its id under v in both
\* required_vars and vars; in a scope whose vars holds v it allocates nothing
\* and leaves vars and required_vars as they are.  Either way no statement is
\* emitted and no block allocated.
C11_Step ==
  last_expr'.kind = "Var" =>
    LET v == last_expr'.var
        scope == Top(scopes)
        after == Top(scopes')
    IN /\ Len(scopes') = Len(scopes)
       /\ after.statements = scope.statements
       /\ blocks' = blocks
       /\ IF v \notin DOMAIN scope.vars
          THEN /\ variables' = Append(variables, variables'[Len(variables')])
               /\ variables'[Len(variables')].ty = VarTy(v)
               /\ Extends(after.vars, scope.vars, v, Len(variables'))
               /\ Extends(after.required_vars, scope.required_vars, v, Len(variables'))
          ELSE /\ variables' = variables
               /\ after.vars = scope.vars
               /\ after.required_vars = scope.required_vars

C11_VarReference == [][C11_Step]_vars

\* C11 witness: a reference in an arm's scope has just allocated the arm's
\* placeholder for the variable, after an earlier reference to it elsewhere.
C11_Witness ==
  /\ pc = "lowering"
  /\ last_expr.kind = "Var"
  /\ Len(scopes) >= 2
  /\ Len(variables) >= 2
  /\ last_expr.var \in DOMAIN Top(scopes).required_vars
  /\ Top(scopes).required_vars[last_expr.var] = Len(variables)
  /\ Top(scopes).vars[last_expr.var] = Len(variables)

\* C12: right after a let statement is lowered, the declared name is bound in
\* the scope's vars to the variable its right-hand side produced (the output
\* of the literal statement, or the variable the referenced name is bound to).
C12_LetBindsName ==
  (pc = "lowering" /\ last_expr.stmt = "Let") =>
    LET scope == Top(scopes) IN
    /\ last_expr.pattern \in DOMAIN scope.vars
    /\ scope.vars[last_expr.pattern] =
         IF last_expr.kind = "Literal"
         THEN scope.statements[Len(scope.statements)].output
         ELSE scope.vars[last_expr.var]

IsPrefix(s, t) == Len(s) <= Len(t) /\ SubSeq(t, 1, Len(s)) = s

\* C13: statements are emitted in source order.  Every step leaves the
\* statements a scope already holds in place and only appends after them; a
\* finished block holds its scope's statements in that order and is never
\* changed; and the step that ends a match appends the MatchEnum statement to
\* the enclosing scope, which stays open for the statements that follow.
C13_Step ==
  /\ \A i \in DOMAIN scopes :
       i <= Len(scopes') => IsPrefix(scopes[i].statements, scopes'[i].statements)
  /\ IsPrefix(blocks, blocks')
  /\ Len(scopes') < Len(scopes) =>
       /\ Len(blocks') = Len(blocks) + 1
       /\ blocks'[Len(blocks')].statements = Top(scopes).statements
  /\ Len(matches') < Len(matches) =>
       /\ pc' = "lowering"
       /\ Len(scopes') = Len(scopes)
       /\ Len(Top(scopes').statements) = Len(Top(scopes).statements) + 1
       /\ Top(scopes').statements[Len(Top(scopes').statements)].kind = "MatchEnum"

C13_SourceOrder == [][C13_Step]_vars

\* C13 witness: a returned function whose root block is a literal, a MatchEnum
\* statement and another literal.
C13_Witness ==
  /\ result.tag = "Some"
  /\ LET root == result.blocks[result.root].statements IN
       /\ Len(root) = 3
       /\ root[1].kind = "Literal"
       /\ root[2].kind = "MatchEnum"
       /\ root[3].kind = "Literal"
       /\ root[1].value # root[3].value

\* C14: lowering a literal of value v appends exactly one Literal statement
\* carrying v to the current scope; its output is a newly allocated variable of
\* the literal's type; the scope's vars and required_vars stay as they were.
C14_Step ==
  last_expr'.kind = "Literal" =>
    LET scope == Top(scopes)
        after == Top(scopes')
        stmt == after.statements[Len(after.statements)]
    IN /\ Len(scopes') = Len(scopes)
       /\ Pop(scopes') = Pop(scopes)
       /\ after.statements = Append(scope.statements, stmt)
       /\ stmt.kind = "Literal"
       /\ stmt.value = last_expr'.value
       /\ stmt.output = Len(variables) + 1
       /\ variables' = Append(variables, variables'[stmt.output])
       /\ variables'[stmt.output].ty = last_expr'.ty
       /\ after.vars = scope.vars
       /\ after.required_vars = scope.required_vars
       /\ blocks' = blocks

C14_LiteralLowering == [][C14_Step]_vars

\* C14 witness: the literal 1 of the unit type has just been lowered into a scope
\* that already holds a binding and a statement.
C14_Witness ==
  /\ pc = "lowering"
  /\ last_expr.kind = "Literal"
  /\ last_expr.value = 1
  /\ Top(scopes).vars # EmptyMap
  /\ Len(Top(scopes).statements) >= 2
  /\ variables[Len(variables)].ty = "unit"

\* Every place a MatchArm stands at: in a statement of a finished block, in a
\* statement of a scope still open, or in the match_arms of a match in progress.
RefsIn(in, at, statements) ==
  UNION {{[in |-> in, at |-> at, stmt |-> i, arm |-> k,
           block_id |-> statements[i].arms[k].block_id] :
            k \in DOMAIN statements[i].arms} :
         i \in {j \in DOMAIN statements : statements[j].kind = "MatchEnum"}}

ArmRefs ==
  UNION {RefsIn("block", b, blocks[b].statements) : b \in DOMAIN blocks}
    \cup UNION {RefsIn("scope", i, scopes[i].statements) : i \in DOMAIN scopes}
    \cup UNION {{[in |-> "match", at |-> i, stmt |-> 0, arm |-> k,
                  block_id |-> matches[i].match_arms[k].block_id] :
                   k \in DOMAIN matches[i].match_arms} : i \in DOMAIN matches}

C15_Inv ==
  /\ \A st \in EmittedMatches :
       /\ Len(st.arms) = st.concrete_enum
       /\ \A i \in DOMAIN st.arms :
            /\ st.arms[i].variant = i
            /\ \E e \in LoggedArms :
                 /\ e.block_id = st.arms[i].block_id
                 /\ blocks[e.block_id].statements = e.arm_scope.statements
  /\ \A r1, r2 \in ArmRefs : r1 # r2 => r1.block_id # r2.block_id

C15_Step ==
  /\ Len(arm_log') > Len(arm_log) =>
       LET m == Top(matches)
           after == Top(matches')
           arm == after.match_arms[Len(after.match_arms)]
       IN /\ after.match_arms = Append(m.match_arms, arm)
          /\ arm.variant = Len(m.match_arms) + 1
          /\ arm.block_id = Len(blocks) + 1
          /\ blocks' = Append(blocks, [statements |-> Top(scopes).statements])
  /\ Len(matches') < Len(matches) =>
       LET m == Top(matches)
           st == Top(scopes').statements[Len(Top(scopes').statements)]
       IN /\ Top(scopes').statements = Append(Top(scopes).statements, st)
          /\ Pop(scopes') = Pop(scopes)
          /\ blocks' = blocks
          /\ st.kind = "MatchEnum"
          /\ st.concrete_enum = m.concrete_enum
          /\ st.arms = m.match_arms
          /\ Len(st.arms) = m.concrete_variants

\* C15: a match over an enum with N variants and N arms emits exactly one
\* MatchEnum statement with N arms in the variant declaration order: the i-th
\* arm carries the i-th variant and the id of a block no other arm refers to,
\* whose statements are those its arm's scope collected from the i-th arm body.
C15_MatchArmsInVariantOrder == []C15_Inv /\ [][C15_Step]_vars

\* C15 witness: a match over the two-variant enum whose two arm blocks hold one
\* literal statement each, of different values.
C15_Witness ==
  \E st \in EmittedMatches :
    /\ Len(st.arms) = 2
    /\ \A i \in DOMAIN st.arms :
         LET statements == blocks[st.arms[i].block_id].statements IN
         Len(statements) = 1 /\ statements[1].kind = "Literal"
    /\ blocks[st.arms[1].block_id].statements[1].value
         # blocks[st.arms[2].block_id].statements[1].value

InputsOf(st) == IF st.kind = "Literal" THEN {} ELSE Range(st.inputs)

\* Where a statement stands: in a finished block or in a scope still open.
Places ==
  UNION {{<<"block", b, i>> : i \in DOMAIN blocks[b].statements} : b \in DOMAIN blocks}
    \cup UNION {{<<"scope", s, i>> : i \in DOMAIN scopes[s].statements} : s \in DOMAIN scopes}
StatementsAt(p) ==
  IF p[1] = "block" THEN blocks[p[2]].statements ELSE scopes[p[2]].statements
StmtAt(p) == StatementsAt(p)[p[3]]

\* C16: outputs are fresh and produced once.  No variable id is in the output
\* position (Literal `output`, MatchEnum `outputs`) of two statements, and an
\* output of a statement is not an input of a statement earlier in its block.
C16_OutputsProducedOnce ==
  /\ \A p, q \in Places : p # q => OutputsOf(StmtAt(p)) \cap OutputsOf(StmtAt(q)) = {}
  /\ \A p \in Places :
       /\ StmtAt(p).kind = "MatchEnum" => NoDuplicate(StmtAt(p).outputs)
       /\ \A j \in 1..(p[3] - 1) :
            OutputsOf(StmtAt(p)) \cap InputsOf(StatementsAt(p)[j]) = {}

\* C16 witness: a returned function with a MatchEnum statement that has an
\* input and an output, which differ.
C16_Witness ==
  /\ result.tag = "Some"
  /\ \E p \in Places :
       /\ InputsOf(StmtAt(p)) # {}
       /\ OutputsOf(StmtAt(p)) # {}
       /\ OutputsOf(StmtAt(p)) \cap InputsOf(StmtAt(p)) = {}

\* C17: the frame of lower_expr_match.  While the call for matches[i] runs, from
\* its first step to its last, the scope it was called with (scopes[i]) keeps
\* its vars and required_vars, and its statements change once: the last step
\* appends the MatchEnum statement.  A variable an arm requires and the
\* enclosing scope does not hold is thus not passed to any scope above.
C17_Step ==
  /\ Len(matches') > Len(matches) => scopes' = scopes
  /\ \A i \in DOMAIN matches :
       /\ i <= Len(scopes')
       /\ scopes'[i].vars = scopes[i].vars
       /\ scopes'[i].required_vars = scopes[i].required_vars
       /\ IF i = Len(matches) /\ Len(matches') < Len(matches)
          THEN /\ Len(scopes'[i].statements) = Len(scopes[i].statements) + 1
               /\ IsPrefix(scopes[i].statements, scopes'[i].statements)
               /\ scopes'[i].statements[Len(scopes'[i].statements)].kind = "MatchEnum"
          ELSE scopes'[i].statements = scopes[i].statements

C17_MatchFrame == [][C17_Step]_vars

\* C17 witness: the arm of a nested match has just been unified; it required a
\* variable its enclosing scope does not hold, and neither that scope nor the
\* scopes above hold it in required_vars.
C17_Witness ==
  /\ pc = "lowering"
  /\ arm_log # <<>>
  /\ LET e == arm_log[Len(arm_log)] IN
       /\ e.depth >= 2
       /\ Len(scopes) = e.depth
       /\ Len(matches) = e.depth
       /\ Len(Top(matches).match_arms) = 1
       /\ Top(matches).match_arms[1].block_id = e.block_id
       /\ MissingVars(e) # {}
       /\ \A v \in MissingVars(e) : \A i \in DOMAIN scopes :
            v \notin DOMAIN scopes[i].required_vars

\* The MatchArms of the returned function, each with the block it stands in.
ResultRefs ==
  UNION {RefsIn("block", b, result.blocks[b].statements) : b \in DOMAIN result.blocks}

C18_Inv ==
  result.tag = "Some" =>
    /\ Len(result.blocks) = Len(arm_log) + 1
    /\ Cardinality(ResultRefs) = Len(arm_log)
    /\ result.root = Len(result.blocks)
    /\ \A ref \in ResultRefs : ref.block_id # result.root
    /\ \A b \in DOMAIN result.blocks \ {result.root} :
         /\ Cardinality({ref \in ResultRefs : ref.block_id = b}) = 1
         /\ \A ref \in ResultRefs : ref.block_id = b => b < ref.at

C18_Step ==
  last_expr'.kind = "Block" =>
    /\ blocks' = blocks
    /\ scopes' = scopes
    /\ matches' = matches

\* C18: the block graph of a returned function.  The arena holds one block per
\* lowered match arm plus the root block; the root is allocated last and no
\* MatchArm refers to it; every other block is referred to by exactly one
\* MatchArm, which stands in a block allocated later.  Lowering a nested plain
\* block expression allocates no block and opens no scope.
C18_BlockTree == []C18_Inv /\ [][C18_Step]_vars

\* C18 witness: a returned function with a match nested in an arm of a match:
\* three blocks or more, one of them referred to from a block that is not the
\* root.
C18_Witness ==
  /\ result.tag = "Some"
  /\ Len(result.blocks) >= 3
  /\ \E ref \in ResultRefs : ref.at # result.root
  /\ \E ref \in ResultRefs : ref.at = result.root

====
